---- MODULE Spec2Model ----
(***************************************************************************)
(* Model of the wedding-venue upload gateway: the authenticateToken        *)
(* middleware, the multer upload middleware with its two validators, the   *)
(* three upload routes, the status route and the three venue routes.       *)
(*                                                                         *)
(* The server keeps no state between requests, so a state of the model is  *)
(* the configuration of the process (ACCESS_TOKEN) together with the last  *)
(* request handled, its response, the remote storage calls the handler     *)
(* made and the lines it wrote to the server log.                          *)
(*                                                                         *)
(* Three specifications share the definitions: Spec, the server against a  *)
(* storage service that may answer anything; SpecUtils, the functions of   *)
(* fileUtils.js applied on their own (applied); SpecStore, the server      *)
(* against a storage service that keeps the objects it was given (store).  *)
(*                                                                         *)
(* A JavaScript string is a sequence of one-character strings.             *)
(***************************************************************************)
EXTENDS Integers, Sequences, FiniteSets, TLC

VARIABLES ACCESS_TOKEN, req, res, calls, log, applied, store

vars == <<ACCESS_TOKEN, req, res, calls, log, applied, store>>

----------------------------------------------------------------------------
(* JavaScript values *)

\* `undefined': a one-element tuple that is no string of characters
Undefined == <<"undefined">>

\* JS truthiness of a string-or-undefined value
Truthy(v) == v # Undefined /\ v # <<>>

LowerSeq == <<"a","b","c","d","e","f","g","h","i","j","k","l","m",
              "n","o","p","q","r","s","t","u","v","w","x","y","z">>
UpperSeq == <<"A","B","C","D","E","F","G","H","I","J","K","L","M",
              "N","O","P","Q","R","S","T","U","V","W","X","Y","Z">>
DigitSeq == <<"0","1","2","3","4","5","6","7","8","9">>

Range(s) == {s[i] : i \in DOMAIN s}

LowerChars == Range(LowerSeq)
DigitChars == Range(DigitSeq)
\* characters matched by the regular expression class \s
SpaceChars == {" ", "\t"}

\* String.prototype.toLowerCase, one character
LowerChar(c) ==
  IF \E i \in DOMAIN UpperSeq : UpperSeq[i] = c
    THEN LowerSeq[CHOOSE i \in DOMAIN UpperSeq : UpperSeq[i] = c]
    ELSE c

toLowerCase(s) == [i \in DOMAIN s |-> LowerChar(s[i])]

\* s.replace(/[^...]/g, ''): keep the characters of `keep'
RECURSIVE KeepOnly(_, _)
KeepOnly(s, keep) ==
  IF s = <<>> THEN <<>>
  ELSE (IF Head(s) \in keep THEN <<Head(s)>> ELSE <<>>) \o KeepOnly(Tail(s), keep)

\* s.replace(/X+/g, by) for a character class X: every maximal run of
\* characters of `cls' becomes the string `by'
RECURSIVE ReplaceRuns(_, _, _)
ReplaceRuns(s, cls, by) ==
  IF s = <<>> THEN <<>>
  ELSE IF Head(s) \in cls
    THEN IF Len(s) > 1 /\ s[2] \in cls
           THEN ReplaceRuns(Tail(s), cls, by)
           ELSE by \o ReplaceRuns(Tail(s), cls, by)
    ELSE <<Head(s)>> \o ReplaceRuns(Tail(s), cls, by)

\* s.replace(/^-|-$/g, ''): one leading and one trailing hyphen removed
TrimHyphen(s) ==
  LET a == IF s # <<>> /\ Head(s) = "-" THEN Tail(s) ELSE s
  IN  IF a # <<>> /\ a[Len(a)] = "-" THEN SubSeq(a, 1, Len(a) - 1) ELSE a

\* s.split(' '): the pieces between the occurrences of sep
RECURSIVE Split(_, _)
Split(s, sep) ==
  IF \A i \in DOMAIN s : s[i] # sep THEN <<s>>
  ELSE LET k == CHOOSE i \in DOMAIN s :
                  s[i] = sep /\ \A j \in 1..(i - 1) : s[j] # sep
       IN  <<SubSeq(s, 1, k - 1)>> \o Split(SubSeq(s, k + 1, Len(s)), sep)

\* a[i] of a JS array, i counted from 0
At(a, i) == IF i + 1 \in DOMAIN a THEN a[i + 1] ELSE Undefined

----------------------------------------------------------------------------
(* src/utils/fileUtils.js *)

\* sanitizeVenueName without its last replace, the one of line 16
sanitizeVenueNameNoTrim(venueName) ==
  ReplaceRuns(
    ReplaceRuns(
      KeepOnly(toLowerCase(venueName),
               LowerChars \cup DigitChars \cup SpaceChars \cup {"-"}),
      SpaceChars, <<"-">>),
    {"-"}, <<"-">>)

sanitizeVenueName(venueName) ==
  TrimHyphen(
    ReplaceRuns(
      ReplaceRuns(
        KeepOnly(toLowerCase(venueName),
                 LowerChars \cup DigitChars \cup SpaceChars \cup {"-"}),
        SpaceChars, <<"-">>),
      {"-"}, <<"-">>))

\* category.toLowerCase().replace(/[^a-z0-9]/g, '')
sanitizeCategory(category) ==
  KeepOnly(toLowerCase(category), LowerChars \cup DigitChars)

generateFolderPath(venueName, category) ==
  IF Truthy(category)
    THEN sanitizeVenueName(venueName) \o <<"/">> \o sanitizeCategory(category)
    ELSE sanitizeVenueName(venueName)


\* path.extname (posix): trailing separators are ignored, the base name is
\* what follows the last remaining separator, and the extension runs from
\* the last dot of the base name, unless that dot is its first character
\* or the base name is ".."
RECURSIVE StripTrailingSep(_)
StripTrailingSep(p) ==
  IF p # <<>> /\ p[Len(p)] = "/" THEN StripTrailingSep(SubSeq(p, 1, Len(p) - 1))
  ELSE p

BaseName(p) ==
  LET q == StripTrailingSep(p)
      parts == Split(q, "/")
  IN  parts[Len(parts)]

extname(p) ==
  LET base == BaseName(p)
      dots == {i \in DOMAIN base : base[i] = "."}
  IN  IF dots = {} THEN <<>>
      ELSE LET d == CHOOSE i \in dots : \A j \in dots : j <= i
           IN  IF d = 1 \/ base = <<".", ".">> THEN <<>>
               ELSE SubSeq(base, d, Len(base))

\* ReplaceColonDot leaving the string as it is
KeepColonDot(s) == s

\* s.replace(/[:.]/g, '-')
ReplaceColonDot(s) == [i \in DOMAIN s |-> IF s[i] \in {":", "."} THEN "-" ELSE s[i]]

\* s.slice(0, n)
SliceTo(s, n) == SubSeq(s, 1, IF Len(s) < n THEN Len(s) ELSE n)

\* Date.prototype.toISOString for an instant of the modelled clock: the
\* instants differ in their second and their millisecond
toISOString(now) ==
  <<"2","0","2","5","-","0","1","-","1","5","T","1","0",":","3","0",":","0">>
    \o <<DigitSeq[now.sec + 1]>> \o <<".","0","0">> \o <<DigitSeq[now.ms + 1]>>
    \o <<"Z">>

\* generateFileName without the unique id
generateFileNameNoId(venueName, originalName, category, now, uuid) ==
  LET sanitizedVenue == sanitizeVenueName(venueName)
      timestamp == SliceTo(ReplaceColonDot(toISOString(now)), 19)
      extension == toLowerCase(extname(originalName))
      fileName ==
        IF Truthy(category)
          THEN sanitizedVenue \o <<"_">> \o sanitizeCategory(category) \o <<"_">>
                 \o timestamp
          ELSE sanitizedVenue \o <<"_">> \o timestamp
  IN  fileName \o extension

\* generateFileName; the clock reading and the uuid are its two ambient inputs
generateFileName(venueName, originalName, category, now, uuid) ==
  LET sanitizedVenue == sanitizeVenueName(venueName)
      timestamp == SliceTo(ReplaceColonDot(toISOString(now)), 19)
      extension == toLowerCase(extname(originalName))
      uniqueId == SliceTo(uuid, 8)
      fileName ==
        IF Truthy(category)
          THEN sanitizedVenue \o <<"_">> \o sanitizeCategory(category) \o <<"_">>
                 \o timestamp \o <<"_">> \o uniqueId
          ELSE sanitizedVenue \o <<"_">> \o timestamp \o <<"_">> \o uniqueId
  IN  fileName \o extension

validateFileType(mimeType, allowedTypes) == mimeType \in allowedTypes

validateFileSize(fileSize, maxSize) == fileSize <= maxSize

----------------------------------------------------------------------------
(* src/config/supabase.js *)

BUCKETS == [PHOTOS |-> "photos", MENUS |-> "menus", PRICING |-> "pricing"]

\* Object.values(BUCKETS), Object.entries(BUCKETS): in insertion order
BucketKeys == <<"PHOTOS", "MENUS", "PRICING">>
BucketValues == [i \in DOMAIN BucketKeys |-> BUCKETS[BucketKeys[i]]]
\* bucketKey.toLowerCase() for each key
BucketKeysLower == <<"photos", "menus", "pricing">>

----------------------------------------------------------------------------
(* responses, log lines *)

NoArg == <<>>

\* res.status(status).json({success, error, message, ...data})
Json(status, success, error, text, arg, data) ==
  [status |-> status, success |-> success, error |-> error,
   message |-> [text |-> text, arg |-> arg], data |-> data]

NoData == <<>>

\* console.error(text, error): detail is the text of the logged error
LogLine(text, detail) == [text |-> text, detail |-> detail]

----------------------------------------------------------------------------
(* src/middleware/auth.js *)

\* ExtractToken with the precedence reversed: the query parameter first
ExtractTokenQueryFirst(r) ==
  LET authHeader == r.authorization
      second == IF Truthy(authHeader)
                  THEN At(Split(authHeader, " "), 1) ELSE authHeader
  IN  IF Truthy(r.token) THEN r.token ELSE second

\* the token authenticateToken takes from the request
ExtractToken(r) ==
  LET authHeader == r.authorization
      second == IF Truthy(authHeader)
                  THEN At(Split(authHeader, " "), 1) ELSE authHeader
  IN  IF Truthy(second) THEN second ELSE r.token

Denied401 ==
  [next |-> FALSE, log |-> <<>>,
   res |-> Json(401, FALSE, "Access token required",
                "Please provide a valid access token", NoArg, NoData)]
Denied500 ==
  [next |-> FALSE,
   log |-> <<LogLine("ACCESS_TOKEN environment variable not set", "")>>,
   res |-> Json(500, FALSE, "Server configuration error",
                "Authentication not properly configured", NoArg, NoData)]
Denied403 ==
  [next |-> FALSE, log |-> <<>>,
   res |-> Json(403, FALSE, "Invalid access token",
                "The provided access token is not valid", NoArg, NoData)]
Granted == [next |-> TRUE, log |-> <<>>, res |-> Json(0, FALSE, "", "", NoArg, NoData)]

\* authenticateToken without the comparison of line 32
authenticateTokenNoCompare(r, validToken) ==
  LET token == ExtractToken(r)
  IN  IF ~Truthy(token) THEN Denied401
      ELSE IF ~Truthy(validToken) THEN Denied500
      ELSE Granted

\* authenticateToken with the check of the configuration moved first
authenticateTokenConfigFirst(r, validToken) ==
  LET token == ExtractToken(r)
  IN  IF ~Truthy(validToken) THEN Denied500
      ELSE IF ~Truthy(token) THEN Denied401
      ELSE IF token # validToken THEN Denied403
      ELSE Granted

\* authenticateToken: next says whether next() was called; when it was not,
\* res is the response the middleware ended the request with
authenticateToken(r, validToken) ==
  LET token == ExtractToken(r)
  IN  IF ~Truthy(token) THEN Denied401
      ELSE IF ~Truthy(validToken) THEN Denied500
      ELSE IF token # validToken THEN Denied403
      ELSE Granted

----------------------------------------------------------------------------
(* the remote storage service, seen from the handlers *)

\* texts of errors raised inside the storage service
BackendMessages == {"new row violates row-level security policy",
                    "connect ETIMEDOUT 10.0.0.7:5432"}

Ok(data) == [kind |-> "ok", message |-> "", data |-> data]
\* the call resolves to {data: null, error}
Error(message) == [kind |-> "error", message |-> message, data |-> <<>>]
\* the call rejects
Throw(message) == [kind |-> "throw", message |-> message, data |-> <<>>]

Failures == {Error(m) : m \in BackendMessages} \cup {Throw(m) : m \in BackendMessages}

\* a remote call as the storage service receives it,
\* with the outcome the service gave it
Call(op, bucket, path, file, outcome) ==
  [op |-> op, bucket |-> bucket, path |-> path, file |-> file, outcome |-> outcome]

\* the file argument of the calls that send none
NoFile == <<>>

\* supabase.storage.from(bucket).getPublicUrl(path): computed locally
PublicUrl(bucket, path) == [bucket |-> bucket, path |-> path]

\* an entry of a listing
Entry(name, size) == [name |-> name, size |-> size]

Includes(s, c) == \E i \in DOMAIN s : s[i] = c

\* code unit order of the characters that occur in names
CharOrder == <<"\t", " ", "!", "-", ".", "/">> \o DigitSeq \o UpperSeq \o <<"_">> \o LowerSeq
CharCode(c) == CHOOSE i \in DOMAIN CharOrder : CharOrder[i] = c

\* a < b in the order Array.prototype.sort uses by default
RECURSIVE StrLess(_, _)
StrLess(a, b) ==
  IF b = <<>> THEN FALSE
  ELSE IF a = <<>> THEN TRUE
  ELSE IF Head(a) = Head(b) THEN StrLess(Tail(a), Tail(b))
  ELSE CharCode(Head(a)) < CharCode(Head(b))

\* Array.from(set).sort()
RECURSIVE SortSet(_)
SortSet(S) ==
  IF S = {} THEN <<>>
  ELSE LET m == CHOOSE x \in S : \A y \in S \ {x} : StrLess(x, y)
       IN  <<m>> \o SortSet(S \ {m})

RECURSIVE SelectEntries(_, _)
SelectEntries(files, withDot) ==
  IF files = <<>> THEN <<>>
  ELSE (IF Truthy(Head(files).name) /\ (Includes(Head(files).name, ".") <=> withDot)
          THEN <<Head(files)>> ELSE <<>>) \o SelectEntries(Tail(files), withDot)

----------------------------------------------------------------------------
(* requests *)

Request(route, authorization, token, venueName, category, files, bucket, fileName) ==
  [route |-> route, authorization |-> authorization, token |-> token,
   venueName |-> venueName, category |-> category, files |-> files,
   bucket |-> bucket, fileName |-> fileName]

NoRequest == Request("", Undefined, Undefined, Undefined, Undefined, <<>>, "", Undefined)

\* the outcome of a handler: its response, its remote calls, its log lines
Handled(response, made, lines) == [res |-> response, calls |-> made, log |-> lines]

----------------------------------------------------------------------------
(* src/routes/venues.js *)

\* router.get('/'), lines 15-35: the loop over the buckets from bucket i on;
\* o[i] is the outcome of the list call on bucket i
RECURSIVE VenuesLoop(_, _, _, _, _)
VenuesLoop(i, venues, made, lines, o) ==
  IF i > Len(BucketValues)
    THEN LET venueList == SortSet(venues)
         IN  Handled(Json(200, TRUE, "", "", NoArg,
                          [venues |-> venueList, count |-> Len(venueList)]),
                     made, lines)
  ELSE LET bucketName == BucketValues[i]
           made2 == Append(made, Call("list", bucketName, <<>>, NoFile, o[i]))
       IN  IF o[i].kind = "throw"
             THEN Handled(Json(500, FALSE, "Failed to fetch venues",
                               "Unable to retrieve venue list", NoArg, NoData),
                          made2,
                          Append(lines, LogLine("Error fetching venues:", o[i].message)))
           ELSE IF o[i].kind = "error"
             THEN VenuesLoop(i + 1, venues, made2,
                             Append(lines, LogLine("Error listing files in bucket:",
                                                   o[i].message)), o)
           ELSE VenuesLoop(i + 1,
                           venues \cup {e.name : e \in Range(SelectEntries(o[i].data, FALSE))},
                           made2, lines, o)


\* router.get('/:venueName/files'), lines 65-96: venueFiles is a sequence of
\* <<key, files>> pairs in the order the keys are assigned
RECURSIVE VenueFilesLoop(_, _, _, _, _, _)
VenueFilesLoop(i, venueName, venueFiles, made, lines, o) ==
  IF i > Len(BucketValues)
    THEN Handled(Json(200, TRUE, "", "", NoArg,
                      [venue |-> venueName, files |-> venueFiles]),
                 made, lines)
  ELSE LET bucketName == BucketValues[i]
           key == BucketKeysLower[i]
           made2 == Append(made, Call("list", bucketName, venueName, NoFile, o[i]))
       IN  IF o[i].kind = "throw"
             THEN Handled(Json(500, FALSE, "Failed to fetch venue files",
                               "Unable to retrieve files for this venue", NoArg, NoData),
                          made2,
                          Append(lines, LogLine("Error fetching venue files:", o[i].message)))
           ELSE IF o[i].kind = "error"
             THEN VenueFilesLoop(i + 1, venueName, Append(venueFiles, <<key, <<>> >>),
                                 made2,
                                 Append(lines, LogLine("Error listing files for venue in bucket:",
                                                       o[i].message)), o)
           ELSE LET kept == SelectEntries(o[i].data, TRUE)
                    filesWithUrls ==
                      [k \in DOMAIN kept |->
                         [name |-> kept[k].name, size |-> kept[k].size,
                          url |-> PublicUrl(bucketName, venueName \o <<"/">> \o kept[k].name)]]
                IN  VenueFilesLoop(i + 1, venueName,
                                   Append(venueFiles, <<key, filesWithUrls>>),
                                   made2, lines, o)

ListVenueFiles(r, o) == VenueFilesLoop(1, r.venueName, <<>>, <<>>, <<>>, o)

\* ListVenues failing the whole request when a list call returns an error
ListVenuesFailOnError(r, o) ==
  LET h == VenuesLoop(1, {}, <<>>, <<>>, o)
  IN  IF \E i \in DOMAIN h.calls : h.calls[i].outcome.kind = "error"
        THEN Handled(Json(500, FALSE, "Failed to fetch venues",
                          "Unable to retrieve venue list", NoArg, NoData),
                     h.calls, h.log)
        ELSE h

\* router.get('/'), lines 10-53
ListVenues(r, o) == VenuesLoop(1, {}, <<>>, <<>>, o)

\* DeleteFile without the validation of the bucket name
DeleteFileNoBucketCheck(r, o) ==
  LET filePath == r.venueName \o <<"/">> \o r.fileName
      made == <<Call("remove", r.bucket, filePath, NoFile, o)>>
  IN  IF o.kind # "ok"
        THEN Handled(Json(500, FALSE, "Delete failed",
                          "Unable to delete the specified file", NoArg, NoData),
                     made, <<LogLine("Error deleting file:", o.message)>>)
      ELSE Handled(Json(200, TRUE, "", "File deleted successfully", NoArg,
                        [venue |-> r.venueName, bucket |-> r.bucket,
                         fileName |-> r.fileName, filePath |-> filePath]),
                   made, <<>>)

\* router.delete('/:venueName/files/:bucket/:fileName'), lines 120-165
DeleteFile(r, o) ==
  IF r.bucket \notin Range(BucketValues)
    THEN Handled(Json(400, FALSE, "Invalid bucket",
                      "Specified bucket does not exist", NoArg, NoData), <<>>, <<>>)
  ELSE LET filePath == r.venueName \o <<"/">> \o r.fileName
           made == <<Call("remove", r.bucket, filePath, NoFile, o)>>
       IN  IF o.kind = "throw"
             THEN Handled(Json(500, FALSE, "Delete failed",
                               "An error occurred while deleting the file", NoArg, NoData),
                          made, <<LogLine("Error deleting file:", o.message)>>)
           ELSE IF o.kind = "error"
             THEN Handled(Json(500, FALSE, "Delete failed",
                               "Unable to delete the specified file", NoArg, NoData),
                          made, <<LogLine("Error deleting file:", o.message)>>)
           ELSE Handled(Json(200, TRUE, "", "File deleted successfully", NoArg,
                             [venue |-> r.venueName, bucket |-> r.bucket,
                              fileName |-> r.fileName, filePath |-> filePath]),
                        made, <<>>)


----------------------------------------------------------------------------
(* src/middleware/upload.js *)

ALLOWED_TYPES ==
  [images |-> {"image/jpeg", "image/jpg", "image/png", "image/webp"},
   documents |-> {"application/pdf", "application/msword",
                  "application/vnd.openxmlformats-officedocument.wordprocessingml.document",
                  "application/vnd.oasis.opendocument.text", "text/plain"}]

ALL_ALLOWED_TYPES == ALLOWED_TYPES.images \cup ALLOWED_TYPES.documents

\* the default, used when the environment sets no MAX_FILE_SIZE
MAX_FILE_SIZE == 10 * 1024 * 1024

\* limits.files, and the maxCount of upload.array('files', 10)
FILES_LIMIT == 10

\* fileFilter accepting every type
fileFilterAcceptAll(file) == ""

\* fileFilter: the code of the error it passes to cb, "" when it accepts
fileFilter(file) ==
  IF ~validateFileType(file.mimetype, ALL_ALLOWED_TYPES)
    THEN "INVALID_FILE_TYPE" ELSE ""

\* multer on file part i of the request: the code of the error it raises
\* there, "" when it stores the part. The installed multer decides whether
\* a part of exactly limits.fileSize bytes is stored or already raises
\* LIMIT_FILE_SIZE (its parser reports the limit on reaching it in some
\* releases and on passing it in others): atLimit says which.
PartError(parts, i, atLimit) ==
  IF i > FILES_LIMIT THEN "LIMIT_FILE_COUNT"
  ELSE IF parts[i].fieldname # "files" THEN "LIMIT_UNEXPECTED_FILE"
  ELSE IF fileFilter(parts[i]) # "" THEN fileFilter(parts[i])
  ELSE IF parts[i].size > MAX_FILE_SIZE THEN "LIMIT_FILE_SIZE"
  ELSE IF atLimit /\ parts[i].size = MAX_FILE_SIZE THEN "LIMIT_FILE_SIZE"
  ELSE ""

\* upload = multer({storage, fileFilter, limits}).array('files', 10): the
\* parts are read in order and the first error ends the parsing
upload(parts, atLimit) ==
  LET bad == {i \in DOMAIN parts : PartError(parts, i, atLimit) # ""}
  IN  IF bad = {} THEN [code |-> "", file |-> NoFile, files |-> parts]
      ELSE LET i == CHOOSE k \in bad : \A j \in bad : k <= j
           IN  [code |-> PartError(parts, i, atLimit), file |-> parts[i],
                files |-> <<>>]

handleUploadError(error) ==
  IF error.code = "LIMIT_FILE_SIZE"
    THEN Handled(Json(400, FALSE, "File too large",
                      "File size exceeds the maximum limit of 10MB", NoArg, NoData),
                 <<>>, <<>>)
  ELSE IF error.code = "LIMIT_FILE_COUNT"
    THEN Handled(Json(400, FALSE, "Too many files",
                      "Maximum 10 files allowed per upload", NoArg, NoData), <<>>, <<>>)
  ELSE IF error.code = "LIMIT_UNEXPECTED_FILE"
    THEN Handled(Json(400, FALSE, "Unexpected file field",
                      "Please use the correct file field name", NoArg, NoData), <<>>, <<>>)
  ELSE IF error.code = "INVALID_FILE_TYPE"
    THEN Handled(Json(400, FALSE, "Invalid file type",
                      "File type is not allowed", error.file.mimetype,
                      [allowedTypes |-> ALL_ALLOWED_TYPES]), <<>>, <<>>)
  ELSE Handled(Json(500, FALSE, "Upload failed",
                    "An error occurred during file upload", NoArg, NoData),
               <<>>, <<LogLine("Upload error:", error.code)>>)

\* validateFiles without the check that a file has content
validateFilesNoEmptyCheck(files) ==
  IF files = <<>>
    THEN [next |-> FALSE,
          res |-> Json(400, FALSE, "No files provided",
                       "Please select at least one file to upload", NoArg, NoData)]
  ELSE LET bad == {i \in DOMAIN files : ~validateFileSize(files[i].size, MAX_FILE_SIZE)}
       IN  IF bad = {} THEN [next |-> TRUE, res |-> Json(0, FALSE, "", "", NoArg, NoData)]
           ELSE LET file == files[CHOOSE k \in bad : \A j \in bad : k <= j]
                IN  [next |-> FALSE,
                     res |-> Json(400, FALSE, "File too large",
                                  "File exceeds the maximum size limit",
                                  file.originalname, [maxSize |-> "10MB"])]

\* validateFiles: the loop returns at the first file that is too large or empty
validateFiles(files) ==
  IF files = <<>>
    THEN [next |-> FALSE,
          res |-> Json(400, FALSE, "No files provided",
                       "Please select at least one file to upload", NoArg, NoData)]
  ELSE LET bad == {i \in DOMAIN files :
                     \/ ~validateFileSize(files[i].size, MAX_FILE_SIZE)
                     \/ files[i].size = 0}
       IN  IF bad = {} THEN [next |-> TRUE, res |-> Json(0, FALSE, "", "", NoArg, NoData)]
           ELSE LET file == files[CHOOSE k \in bad : \A j \in bad : k <= j]
                IN  IF ~validateFileSize(file.size, MAX_FILE_SIZE)
                      THEN [next |-> FALSE,
                            res |-> Json(400, FALSE, "File too large",
                                         "File exceeds the maximum size limit",
                                         file.originalname, [maxSize |-> "10MB"])]
                      ELSE [next |-> FALSE,
                            res |-> Json(400, FALSE, "Empty file", "File is empty",
                                         file.originalname, NoData)]


----------------------------------------------------------------------------
(* src/routes/upload.js *)

\* getFileCategory on the types of the allow-list: image/* is an image;
\* application/pdf and the types whose text contains "document" or "word"
\* are documents; text/plain is neither
getFileCategory(mimeType) ==
  IF mimeType \in ALLOWED_TYPES.images THEN "image"
  ELSE IF mimeType \in ALLOWED_TYPES.documents \ {"text/plain"} THEN "document"
  ELSE "other"

\* uuidv4() for the i-th file of a request
UuidFor(i) ==
  <<"0","0","0","0","0","0", DigitSeq[(i \div 10) + 1], DigitSeq[(i % 10) + 1]>>
    \o <<"-","0","0","0","0","-","4","0","0","0","-","8","0","0","0","-",
         "0","0","0","0","0","0","0","0","0","0","0","0">>

\* the result pushed for a file whose upload resolved to {error}
FailedResult(file, error) ==
  [originalName |-> file.originalname, success |-> FALSE, error |-> error.message]

\* uploadFilesToBucket (lines 143-200) from file i on; o[i] is the outcome
\* of the remote upload of file i, now the reading of the clock
RECURSIVE UploadLoop(_, _, _, _, _, _, _, _, _)
UploadLoop(i, files, bucketName, venueName, category, now, o, results, trace) ==
  IF i > Len(files) THEN [results |-> results, calls |-> trace.calls, log |-> trace.log]
  ELSE
    LET file == files[i]
        folderPath == generateFolderPath(venueName, category)
        fileName == generateFileName(venueName, file.originalname, category, now, UuidFor(i))
        filePath == folderPath \o <<"/">> \o fileName
        made == Append(trace.calls, Call("upload", bucketName, filePath, file, o[i]))
    IN  IF o[i].kind = "error"
          THEN UploadLoop(i + 1, files, bucketName, venueName, category, now, o,
                          Append(results, FailedResult(file, o[i])),
                          [calls |-> made,
                           log |-> Append(trace.log,
                                          LogLine("Upload error for file:", o[i].message))])
        ELSE IF o[i].kind = "throw"
          THEN UploadLoop(i + 1, files, bucketName, venueName, category, now, o,
                          Append(results,
                                 [originalName |-> file.originalname, success |-> FALSE,
                                  error |-> "Unexpected upload error"]),
                          [calls |-> made,
                           log |-> Append(trace.log,
                                          LogLine("Unexpected error uploading file:",
                                                  o[i].message))])
        ELSE UploadLoop(i + 1, files, bucketName, venueName, category, now, o,
                        Append(results,
                               [originalName |-> file.originalname, fileName |-> fileName,
                                filePath |-> filePath,
                                url |-> PublicUrl(bucketName, filePath),
                                size |-> file.size, mimeType |-> file.mimetype,
                                category |-> getFileCategory(file.mimetype),
                                success |-> TRUE]),
                        [calls |-> made, log |-> trace.log])

\* uploadFilesToBucket returning at the first file whose upload fails
uploadFilesToBucketStopAtFailure(files, bucketName, venueName, category, now, o) ==
  LET full == UploadLoop(1, files, bucketName, venueName,
                         IF category = Undefined THEN <<>> ELSE category,
                         now, o, <<>>, [calls |-> <<>>, log |-> <<>>])
      failed == {i \in DOMAIN files : o[i].kind # "ok"}
  IN  IF failed = {} THEN full
      ELSE LET k == CHOOSE i \in failed : \A j \in failed : i <= j
           IN  [results |-> SubSeq(full.results, 1, k),
                calls |-> SubSeq(full.calls, 1, k), log |-> full.log]

\* category = '' when the caller passes none
uploadFilesToBucket(files, bucketName, venueName, category, now, o) ==
  UploadLoop(1, files, bucketName, venueName,
             IF category = Undefined THEN <<>> ELSE category,
             now, o, <<>>, [calls |-> <<>>, log |-> <<>>])

\* the handler of an upload route without its check of venueName
UploadHandlerNoVenueCheck(r, bucketName, category, now, o) ==
  LET done == uploadFilesToBucket(r.files, bucketName, r.venueName, category, now, o)
  IN  Handled(Json(200, TRUE, "", "Successfully uploaded files to bucket", NoArg,
                   [uploads |-> done.results, bucket |-> bucketName,
                    venue |-> r.venueName,
                    category |-> IF Truthy(category) THEN category
                                 ELSE <<"g","e","n","e","r","a","l">>]),
              done.calls, done.log)

\* the handler of an upload route (lines 18-43, 60-83, 100-123): category is
\* what the route passes on, the body's category for photos and nothing
\* for menus and pricing
UploadHandler(r, bucketName, category, now, o) ==
  IF ~Truthy(r.venueName)
    THEN Handled(Json(400, FALSE, "Venue name required",
                      "Please provide a venue name", NoArg, NoData), <<>>, <<>>)
  ELSE UploadHandlerNoVenueCheck(r, bucketName, category, now, o)

\* upload, handleUploadError, validateFiles and the handler, in the order
\* the route chains them; env holds the reading of the clock (now) and the
\* behaviour of the installed multer at the size limit (atLimit)
UploadChain(r, bucketName, category, env, o) ==
  LET parsed == upload(r.files, env.atLimit)
  IN  IF parsed.code # "" THEN handleUploadError(parsed)
      ELSE LET checked == validateFiles(parsed.files)
           IN  IF ~checked.next THEN Handled(checked.res, <<>>, <<>>)
               ELSE UploadHandler(r, bucketName, category, env.now, o)

\* router.post('/photos'), '/menus', '/pricing' behind authenticateToken
UploadPhotos(r, env, o) == UploadChain(r, BUCKETS.PHOTOS, r.category, env, o)
UploadMenus(r, env, o) == UploadChain(r, BUCKETS.MENUS, Undefined, env, o)
UploadPricing(r, env, o) == UploadChain(r, BUCKETS.PRICING, Undefined, env, o)

\* router.get('/status'), lines 207-242: o is the outcome of listBuckets
UploadStatus(r, o) ==
  LET made == <<Call("listBuckets", "", <<>>, NoFile, o)>>
  IN  IF o.kind # "ok"
        THEN Handled(Json(500, FALSE, "Status check failed",
                          "Unable to retrieve upload status", NoArg, NoData),
                     made, <<LogLine("Status check error:", o.message)>>)
      ELSE Handled(Json(200, TRUE, "", "", NoArg,
                        [buckets |-> {b \in Range(o.data) : b.name \in Range(BucketValues)},
                         allowedBuckets |-> BUCKETS]),
                   made, <<>>)


----------------------------------------------------------------------------
(* the inputs: configurations, credentials, requests, outcomes of the
   remote calls *)

\* at most this many remote uploads of one request fail
MaxFaults == 1
\* requests of up to this many files take every combination of file kinds
MaxVariedLen == 2

Secret == <<"s">>
SpacedSecret == <<"s", " ", "k">>
Wrong == <<"x">>

\* process.env.ACCESS_TOKEN: unset, empty, or set
Secrets == {Undefined, <<>>, Secret, SpacedSecret}

Bearer == <<"B","e","a","r","e","r">>
Basic == <<"B","a","s","i","c">>

Headers ==
  {Undefined, <<>>, Secret, Bearer \o <<" ">>,
   Bearer \o <<" ">> \o Secret, Bearer \o <<" ">> \o Wrong,
   Bearer \o <<" ", " ">> \o Secret, Bearer \o <<" ">> \o SpacedSecret,
   Basic \o <<" ">> \o Secret}

QueryTokens == {Undefined, <<>>, Secret, Wrong, SpacedSecret}

\* <<Authorization header, token query parameter>>
Credentials == Headers \X QueryTokens
FewCredentials == {<<Bearer \o <<" ">> \o Secret, Undefined>>, <<Undefined, Wrong>>}

VenueNames ==
  {Undefined, <<>>, <<"a">>, <<"O","a","k"," ","M">>, <<"-","-">>, <<"!","!">>}
Categories == {Undefined, <<>>, <<"C","e","r">>, <<"!">>}

\* the kinds of file a request carries
Kind(fieldname, mimetype, size) ==
  [fieldname |-> fieldname, mimetype |-> mimetype, size |-> size]
Plain == Kind("files", "application/pdf", 2048)
FileKinds ==
  {Plain,
   Kind("files", "application/pdf", MAX_FILE_SIZE),
   Kind("files", "image/png", 1),
   Kind("files", "text/plain", 2048),
   Kind("files", "application/pdf", 0),
   Kind("files", "application/pdf", MAX_FILE_SIZE + 1),
   Kind("files", "application/zip", 2048),
   Kind("photo", "application/pdf", 2048)}

\* the original name of the i-th file: with an upper-case extension, with
\* none, with a lower-case one
NameFor(i) ==
  <<LowerSeq[i]>> \o (IF i % 3 = 1 THEN <<".","P","D","F">>
                      ELSE IF i % 3 = 2 THEN <<>> ELSE <<".","j","p","g">>)

FilePart(i, kind) ==
  [fieldname |-> kind.fieldname, originalname |-> NameFor(i),
   mimetype |-> kind.mimetype, size |-> kind.size]

FileLists ==
  {[i \in 1..n |-> FilePart(i, Plain)] : n \in 0..(FILES_LIMIT + 1)}
    \cup UNION {{[i \in 1..n |-> FilePart(i, k[i])] : k \in [1..n -> FileKinds]}
                  : n \in 1..MaxVariedLen}

\* the outcomes of the remote uploads of n files
UploadOutcomes(n) ==
  LET faulty == {F \in SUBSET (1..n) : Cardinality(F) <= MaxFaults}
  IN  UNION {{[i \in 1..n |-> IF i \in F THEN f[i] ELSE Ok(<<>>)] : f \in [F -> Failures]}
               : F \in faulty}

Instants == {[sec |-> 0, ms |-> 0]}

\* what a request of an upload route meets: the clock and the multer build
Environments == {[now |-> t, atLimit |-> b] : t \in Instants, b \in BOOLEAN}

\* every credential with one plain request; every venue name and category
\* with the requests of at most one file; every list of files with two
\* venue names
UploadRequests(route) ==
  {Request(route, c[1], c[2], <<"a">>, Undefined, <<FilePart(1, Plain)>>, "", Undefined)
     : c \in Credentials}
    \cup {Request(route, c[1], c[2], v, g, f, "", Undefined)
            : c \in FewCredentials, v \in VenueNames, g \in Categories,
              f \in {l \in FileLists : Len(l) <= 1}}
    \cup {Request(route, c[1], c[2], v, <<"C","e","r">>, f, "", Undefined)
            : c \in FewCredentials, v \in {Undefined, <<"O","a","k"," ","M">>},
              f \in FileLists}

Listings ==
  {<<>>,
   <<Entry(<<"a">>, 0), Entry(<<"a",".","p">>, 7)>>,
   <<Entry(<<"b">>, 0), Entry(<<>>, 0)>>}

ListOutcomes == {Ok(l) : l \in Listings} \cup Failures

BucketLists ==
  {<<[name |-> "photos"], [name |-> "menus"], [name |-> "pricing"], [name |-> "other"]>>,
   <<[name |-> "photos"]>>}

PathNames == {<<"a">>, <<"O","a","k">>}
FileNames == {<<"a","_","1",".","p">>}
BucketParams == {"photos", "menus", "pricing", "randombucket", "PHOTOS"}

----------------------------------------------------------------------------
(* the server *)

Idle == req = NoRequest

Init ==
  /\ ACCESS_TOKEN \in Secrets
  /\ req = NoRequest
  /\ res = Json(0, FALSE, "", "", NoArg, NoData)
  /\ calls = <<>>
  /\ log = <<>>
  /\ applied = <<>>
  /\ store = {}

\* a route behind authenticateToken: the handler runs only after next()
Protected(r, handled) ==
  LET auth == authenticateToken(r, ACCESS_TOKEN)
  IN  /\ req' = r
      /\ res' = IF auth.next THEN handled.res ELSE auth.res
      /\ calls' = IF auth.next THEN handled.calls ELSE <<>>
      /\ log' = IF auth.next THEN handled.log ELSE auth.log
      /\ UNCHANGED ACCESS_TOKEN

\* the outcomes of the remote calls are drawn only for a request that gets
\* as far as making them
Authenticated(r) == authenticateToken(r, ACCESS_TOKEN).next

AllOk(n) == [i \in 1..n |-> Ok(<<>>)]

UploadDraws(r, bucketName, env) ==
  IF /\ Authenticated(r)
     /\ UploadChain(r, bucketName, Undefined, env, AllOk(Len(r.files))).calls # <<>>
    THEN UploadOutcomes(Len(r.files))
    ELSE {AllOk(Len(r.files))}

Draws(r, outcomes) ==
  IF Authenticated(r) THEN outcomes ELSE {CHOOSE o \in outcomes : TRUE}

PostPhotos ==
  /\ Idle
  /\ \E r \in UploadRequests("POST /api/upload/photos"), env \in Environments :
       \E o \in UploadDraws(r, BUCKETS.PHOTOS, env) :
         Protected(r, UploadPhotos(r, env, o)) /\ UNCHANGED <<applied, store>>

PostMenus ==
  /\ Idle
  /\ \E r \in UploadRequests("POST /api/upload/menus"), env \in Environments :
       \E o \in UploadDraws(r, BUCKETS.MENUS, env) :
         Protected(r, UploadMenus(r, env, o)) /\ UNCHANGED <<applied, store>>

PostPricing ==
  /\ Idle
  /\ \E r \in UploadRequests("POST /api/upload/pricing"), env \in Environments :
       \E o \in UploadDraws(r, BUCKETS.PRICING, env) :
         Protected(r, UploadPricing(r, env, o)) /\ UNCHANGED <<applied, store>>

GetStatus ==
  /\ Idle
  /\ \E c \in Credentials :
       LET r == Request("GET /api/upload/status", c[1], c[2], Undefined, Undefined,
                        <<>>, "", Undefined)
       IN  \E o \in Draws(r, {Ok(b) : b \in BucketLists} \cup Failures) :
             Protected(r, UploadStatus(r, o)) /\ UNCHANGED <<applied, store>>

GetVenues ==
  /\ Idle
  /\ \E c \in Credentials :
       LET r == Request("GET /api/venues", c[1], c[2], Undefined, Undefined,
                        <<>>, "", Undefined)
       IN  \E o \in Draws(r, [DOMAIN BucketValues -> ListOutcomes]) :
             Protected(r, ListVenues(r, o)) /\ UNCHANGED <<applied, store>>

GetVenueFiles ==
  /\ Idle
  /\ \E c \in Credentials, v \in PathNames :
       LET r == Request("GET /api/venues/:venueName/files", c[1], c[2], v, Undefined,
                        <<>>, "", Undefined)
       IN  \E o \in Draws(r, [DOMAIN BucketValues -> ListOutcomes]) :
             Protected(r, ListVenueFiles(r, o)) /\ UNCHANGED <<applied, store>>

DeleteVenueFile ==
  /\ Idle
  /\ \E c \in Credentials, v \in PathNames, b \in BucketParams, f \in FileNames :
       LET r == Request("DELETE /api/venues/:venueName/files/:bucket/:fileName",
                        c[1], c[2], v, Undefined, <<>>, b, f)
       IN  \E o \in Draws(r, {Ok(<<>>)} \cup Failures) :
             Protected(r, DeleteFile(r, o)) /\ UNCHANGED <<applied, store>>

\* the response is sent; what the request held is dropped
EndRequest ==
  /\ ~Idle
  /\ req' = NoRequest
  /\ res' = Json(0, FALSE, "", "", NoArg, NoData)
  /\ calls' = <<>>
  /\ log' = <<>>
  /\ UNCHANGED <<ACCESS_TOKEN, applied, store>>

Next ==
  \/ PostPhotos
  \/ PostMenus
  \/ PostPricing
  \/ GetStatus
  \/ GetVenues
  \/ GetVenueFiles
  \/ DeleteVenueFile
  \/ EndRequest

Spec == Init /\ [][Next]_vars

----------------------------------------------------------------------------
(* the functions of fileUtils.js applied on their own *)

\* the raw venue names are all the strings of at most this many characters
MaxStringLen == 4
\* at most this many invocations of generateFileName are held side by side
MaxInvocations == 2

\* an upper-case and a lower-case letter, a digit, two kinds of white
\* space, the hyphen and a character that sanitizeVenueName removes
NameChars == {"a", "B", "7", " ", "\t", "-", "!"}

RawNames == UNION {[1..k -> NameChars] : k \in 0..MaxStringLen}

\* readings of the clock in two seconds, two milliseconds in each
UtilInstants == {[sec |-> s, ms |-> m] : s \in 0..1, m \in 0..1}

\* values of uuidv4(): two that differ in their first eight characters and
\* one that differs from the first only in its last character
Uuids == {UuidFor(1), UuidFor(2), [UuidFor(1) EXCEPT ![36] = "1"]}

\* a call of a function of fileUtils.js, with what it returned
Application(fn, args, out) == [fn |-> fn, args |-> args, out |-> out]

UtilsInit == Init /\ ACCESS_TOKEN = Undefined

ApplySanitizeVenueName ==
  /\ applied = <<>>
  /\ \E x \in RawNames :
       applied' = <<Application("sanitizeVenueName", [venueName |-> x],
                                sanitizeVenueName(x))>>
  /\ UNCHANGED <<ACCESS_TOKEN, req, res, calls, log, store>>

ApplyGenerateFileName ==
  /\ Len(applied) < MaxInvocations
  /\ \A i \in DOMAIN applied : applied[i].fn = "generateFileName"
  /\ \E g \in {<<>>, <<"C","e","r">>}, t \in UtilInstants, u \in Uuids :
       LET a == [venueName |-> <<"O","a","k"," ","M">>, originalName |-> NameFor(1),
                 category |-> g, now |-> t, uuid |-> u]
       IN  applied' = Append(applied,
                             Application("generateFileName", a,
                                         generateFileName(a.venueName, a.originalName,
                                                          a.category, a.now, a.uuid)))
  /\ UNCHANGED <<ACCESS_TOKEN, req, res, calls, log, store>>

\* what was returned is dropped
Forget ==
  /\ applied # <<>>
  /\ applied' = <<>>
  /\ UNCHANGED <<ACCESS_TOKEN, req, res, calls, log, store>>

UtilsNext ==
  \/ ApplySanitizeVenueName
  \/ ApplyGenerateFileName
  \/ Forget

SpecUtils == UtilsInit /\ [][UtilsNext]_vars

----------------------------------------------------------------------------
(* the server against a storage service that keeps what it is given: an
   upload adds an object unless one exists at its path, a remove takes the
   object at its path away, a list returns the entries directly under a
   folder, the objects by their names and the subfolders by theirs *)

\* uploads are accepted while the service holds fewer objects than this
MaxObjects == 2

Object(bucket, path, size) == [bucket |-> bucket, path |-> path, size |-> size]

\* the segments of a path
Segments(path) == Split(path, "/")

\* the segments of the folder a list call names; '' names the top level
FolderSegments(folder) == IF folder = <<>> THEN <<>> ELSE Segments(folder)

\* the object lies in the folder, directly or in a subfolder of it
Below(ob, bucket, folder) ==
  LET f == FolderSegments(folder)
      p == Segments(ob.path)
  IN  /\ ob.bucket = bucket
      /\ Len(p) > Len(f)
      /\ SubSeq(p, 1, Len(f)) = f

\* storage.from(bucket).list(folder): one entry for each name directly
\* under the folder, sorted by name; an object has its size, a subfolder
\* has no metadata
Listing(objects, bucket, folder) ==
  LET n == Len(FolderSegments(folder))
      below == {ob \in objects : Below(ob, bucket, folder)}
      sorted == SortSet({Segments(ob.path)[n + 1] : ob \in below})
      SizeOf(name) ==
        LET here == {ob \in below : Len(Segments(ob.path)) = n + 1
                                      /\ Segments(ob.path)[n + 1] = name}
        IN  IF here = {} THEN 0 ELSE (CHOOSE ob \in here : TRUE).size
  IN  [k \in DOMAIN sorted |-> Entry(sorted[k], SizeOf(sorted[k]))]

\* the outcomes of the list calls of a list route, bucket by bucket
StoreListOutcomes(folder) ==
  [i \in DOMAIN BucketValues |-> Ok(Listing(store, BucketValues[i], folder))]

\* what the service may answer to the n uploads of a request
StoreUploadOutcomes(n) ==
  [1..n -> {Ok(<<>>), Error("The resource already exists")}]

\* the answers the calls got are those of the service: it refuses exactly
\* the uploads to a path that holds an object already
Answered(made) ==
  \A i \in DOMAIN made :
    made[i].op = "upload" =>
      (made[i].outcome.kind = "error"
         <=> \/ \E ob \in store : ob.bucket = made[i].bucket /\ ob.path = made[i].path
             \/ \E k \in 1..(i - 1) : made[k].path = made[i].path)

\* the objects the service holds after the calls of a request
StoreAfter(made) ==
  LET done == {made[i] : i \in {j \in DOMAIN made : made[j].outcome.kind = "ok"}}
      removed == {ob \in store : \E c \in done :
                    c.op = "remove" /\ c.bucket = ob.bucket /\ c.path = ob.path}
      added == {Object(c.bucket, c.path, c.file.size) : c \in {d \in done : d.op = "upload"}}
  IN  (store \ removed) \cup added

StoreVenues == {<<"O","a","k"," ","M">>, <<"a">>}
StoreCategories == {Undefined, <<"C","e","r">>}
\* one file with an extension, one without
StoreFiles == {<<FilePart(1, Plain)>>, <<FilePart(2, Plain)>>}
StoreEnvironment == [now |-> [sec |-> 0, ms |-> 0], atLimit |-> FALSE]

\* the folders clients ask for: those GET /venues can report
StoreFolders == {sanitizeVenueName(v) : v \in StoreVenues}

StoreInit == Init /\ ACCESS_TOKEN = Secret

\* a request to the server in front of the service; handled is what the
\* route does with it once authenticateToken has let it pass
Served(r, handled) ==
  /\ Protected(r, handled)
  /\ store' = IF Authenticated(r) THEN StoreAfter(handled.calls) ELSE store
  /\ UNCHANGED applied

StoreUploadRequests(route) ==
  {Request(route, c[1], c[2], v, g, f, "", Undefined)
     : c \in FewCredentials, v \in StoreVenues, g \in StoreCategories, f \in StoreFiles}

StorePostPhotos ==
  /\ Idle
  /\ Cardinality(store) < MaxObjects
  /\ \E r \in StoreUploadRequests("POST /api/upload/photos") :
       \E o \in StoreUploadOutcomes(Len(r.files)) :
         \E h \in {UploadPhotos(r, StoreEnvironment, o)} : Answered(h.calls) /\ Served(r, h)

StorePostMenus ==
  /\ Idle
  /\ Cardinality(store) < MaxObjects
  /\ \E r \in StoreUploadRequests("POST /api/upload/menus") :
       \E o \in StoreUploadOutcomes(Len(r.files)) :
         \E h \in {UploadMenus(r, StoreEnvironment, o)} : Answered(h.calls) /\ Served(r, h)

StorePostPricing ==
  /\ Idle
  /\ Cardinality(store) < MaxObjects
  /\ \E r \in StoreUploadRequests("POST /api/upload/pricing") :
       \E o \in StoreUploadOutcomes(Len(r.files)) :
         \E h \in {UploadPricing(r, StoreEnvironment, o)} : Answered(h.calls) /\ Served(r, h)

StoreGetVenues ==
  /\ Idle
  /\ \E c \in FewCredentials :
       LET r == Request("GET /api/venues", c[1], c[2], Undefined, Undefined,
                        <<>>, "", Undefined)
       IN  \E h \in {ListVenues(r, StoreListOutcomes(<<>>))} : Served(r, h)

StoreGetVenueFiles ==
  /\ Idle
  /\ \E c \in FewCredentials, v \in StoreFolders :
       LET r == Request("GET /api/venues/:venueName/files", c[1], c[2], v, Undefined,
                        <<>>, "", Undefined)
       IN  \E h \in {ListVenueFiles(r, StoreListOutcomes(v))} : Served(r, h)

\* clients delete by the names of objects the service holds
StoreDeleteVenueFile ==
  /\ Idle
  /\ \E c \in FewCredentials, v \in StoreFolders, b \in Range(BucketValues),
        ob \in store :
       LET f == Segments(ob.path)[Len(Segments(ob.path))]
           r == Request("DELETE /api/venues/:venueName/files/:bucket/:fileName",
                        c[1], c[2], v, Undefined, <<>>, b, f)
       IN  \E h \in {DeleteFile(r, Ok(<<>>))} : Served(r, h)

StoreNext ==
  \/ StorePostPhotos
  \/ StorePostMenus
  \/ StorePostPricing
  \/ StoreGetVenues
  \/ StoreGetVenueFiles
  \/ StoreDeleteVenueFile
  \/ EndRequest

SpecStore == StoreInit /\ [][StoreNext]_vars


----------------------------------------------------------------------------
(* what the properties speak of *)

AuthErrors == {"Access token required", "Server configuration error",
               "Invalid access token"}

\* the request ended in authenticateToken
EndedAtAuth == res.error \in AuthErrors /\ calls = <<>>

\* the token the Authorization header carries: its second word
HeaderToken(r) ==
  IF r.authorization = Undefined THEN Undefined
  ELSE At(Split(r.authorization, " "), 1)

\* the token taken from the request: the header's when it carries one,
\* otherwise the query parameter
TakenToken(r) == IF Truthy(HeaderToken(r)) THEN HeaderToken(r) ELSE r.token

Configured == Truthy(ACCESS_TOKEN)

----------------------------------------------------------------------------
\* C1: on every protected route a remote storage call is made only if a
\* secret is configured and the token taken from the request equals it; in
\* every other case the request ends at authenticateToken, with its
\* response and without a remote call.
C1_RemoteCallsOnlyWithSecret ==
  /\ calls # <<>> =>
       /\ Configured
       /\ ACCESS_TOKEN \in {HeaderToken(req), req.token}
       /\ TakenToken(req) = ACCESS_TOKEN
  /\ (~Idle /\ ~(Configured /\ TakenToken(req) = ACCESS_TOKEN)) => EndedAtAuth

\* a remote remove was made for a request that supplied the secret as its
\* query parameter
C1_Witness ==
  /\ \E i \in DOMAIN calls : calls[i].op = "remove"
  /\ req.authorization = Undefined
  /\ req.token = ACCESS_TOKEN

\* C2 as stated: 500 whenever no secret is configured, whether or not the
\* request carries a token; otherwise 401 without a token and 403 with one
\* that does not match.
C2_AsStated ==
  ~Idle =>
    IF ~Configured THEN res.status = 500 /\ res.error = "Server configuration error"
    ELSE IF ~Truthy(TakenToken(req))
      THEN res.status = 401 /\ res.error = "Access token required"
    ELSE IF TakenToken(req) # ACCESS_TOKEN
      THEN res.status = 403 /\ res.error = "Invalid access token"
    ELSE res.error \notin AuthErrors

\* C2, amended: a request without a token gets 401 whether or not a secret
\* is configured; a request with a token gets 500 when no secret is
\* configured and 403 when the token does not match the configured secret;
\* the three errors are given in no other case.
C2_ErrorKindPerCase ==
  ~Idle =>
    IF ~Truthy(TakenToken(req))
      THEN res.status = 401 /\ res.error = "Access token required"
    ELSE IF ~Configured
      THEN res.status = 500 /\ res.error = "Server configuration error"
    ELSE IF TakenToken(req) # ACCESS_TOKEN
      THEN res.status = 403 /\ res.error = "Invalid access token"
    ELSE res.error \notin AuthErrors

\* a deployment without a secret answered a request that carries a token
C2_Witness ==
  /\ ~Idle
  /\ ~Configured
  /\ Truthy(req.token)
  /\ res.status = 500

\* passed on to the route handler
PassedOn == ~Idle /\ res.error \notin AuthErrors

\* C3 as stated: with a secret configured, a request is passed on whenever
\* its bearer-style header value or its token query parameter is the secret.
C3_AsStated ==
  (/\ ~Idle
   /\ Configured
   /\ \/ req.authorization = Bearer \o <<" ">> \o ACCESS_TOKEN
      \/ req.token = ACCESS_TOKEN)
    => PassedOn

\* C3, amended: with a secret configured, a request is passed on when the
\* second word of its Authorization header is the secret, or when the
\* header carries no second word and the token query parameter is the
\* secret; a header carrying another token is rejected with 403 even
\* together with a matching query parameter.
C3_HeaderBeforeQuery ==
  (~Idle /\ Configured) =>
    /\ HeaderToken(req) = ACCESS_TOKEN => PassedOn
    /\ (~Truthy(HeaderToken(req)) /\ req.token = ACCESS_TOKEN) => PassedOn
    /\ (Truthy(HeaderToken(req)) /\ HeaderToken(req) # ACCESS_TOKEN)
         => res.status = 403

\* a header with another token and a matching query parameter: rejected
C3_Witness ==
  /\ Configured
  /\ req.authorization = Bearer \o <<" ">> \o Wrong
  /\ req.token = ACCESS_TOKEN
  /\ res.status = 403


----------------------------------------------------------------------------
UploadRoutes == {"POST /api/upload/photos", "POST /api/upload/menus",
                 "POST /api/upload/pricing"}
DeleteRoute == "DELETE /api/venues/:venueName/files/:bucket/:fileName"
ListRoutes == {"GET /api/venues", "GET /api/venues/:venueName/files"}

\* an upload request that got past authenticateToken
AuthenticatedUpload == req.route \in UploadRoutes /\ PassedOn

UploadCalls == {i \in DOMAIN calls : calls[i].op = "upload"}

\* the fixed set of allowed MIME types
AllowedTypes ==
  {"image/jpeg", "image/jpg", "image/png", "image/webp", "application/pdf",
   "application/msword",
   "application/vnd.openxmlformats-officedocument.wordprocessingml.document",
   "application/vnd.oasis.opendocument.text", "text/plain"}

\* the size ceiling, 10 MiB, and the ceiling on the files of a request
SizeCeiling == 10485760
CountCeiling == 10

\* the error kinds of the defects a request has, of those C4 lists
ListedDefects(r) ==
  (IF r.files = <<>> THEN {"No files provided"} ELSE {})
    \cup (IF \E i \in DOMAIN r.files : r.files[i].size = 0
            THEN {"Empty file"} ELSE {})
    \cup (IF \E i \in DOMAIN r.files : r.files[i].size > SizeCeiling
            THEN {"File too large"} ELSE {})
    \cup (IF Len(r.files) > CountCeiling THEN {"Too many files"} ELSE {})
    \cup (IF \E i \in DOMAIN r.files : r.files[i].mimetype \notin AllowedTypes
            THEN {"Invalid file type"} ELSE {})
    \cup (IF ~Truthy(r.venueName) THEN {"Venue name required"} ELSE {})

\* and of the two defects C4 does not list: a file sent under another field
\* name than `files', and a file of exactly the size ceiling, which the
\* multer releases that stop on reaching the limit reject as too large
Defects(r) ==
  ListedDefects(r)
    \cup (IF \E i \in DOMAIN r.files : r.files[i].fieldname # "files"
            THEN {"Unexpected file field"} ELSE {})
    \cup (IF \E i \in DOMAIN r.files : r.files[i].size = SizeCeiling
            THEN {"File too large"} ELSE {})

\* C4: an authenticated upload request with no file, an empty file, a file
\* above the size ceiling, more than 10 files, a type outside the
\* allow-list or no venueName is answered with 400 and the error kind of
\* one of its defects (an empty-file error names an empty file of the
\* request), and no remote upload is made for any of its files.
C4_DefectiveUploadRejected ==
  (AuthenticatedUpload /\ ListedDefects(req) # {}) =>
    /\ res.status = 400
    /\ res.success = FALSE
    /\ res.error \in Defects(req)
    /\ UploadCalls = {}
    /\ res.error = "Empty file" =>
         \E i \in DOMAIN req.files :
           req.files[i].size = 0 /\ res.message.arg = req.files[i].originalname

\* a request of two files, the second one empty, rejected naming it
C4_Witness ==
  /\ AuthenticatedUpload
  /\ Len(req.files) = 2
  /\ req.files[1].size > 0
  /\ req.files[2].size = 0
  /\ res.status = 400
  /\ res.error = "Empty file"
  /\ res.message.arg = req.files[2].originalname

\* C5: every file that reaches the remote upload call is a file of the
\* request, has a size above 0 and at most MAX_FILE_SIZE and a type of the
\* allow-list, and the request carries between 1 and 10 files.
C5_UploadedFilesAreValid ==
  \A i \in UploadCalls :
    /\ calls[i].file \in Range(req.files)
    /\ calls[i].file.size > 0
    /\ calls[i].file.size <= SizeCeiling
    /\ calls[i].file.mimetype \in AllowedTypes
    /\ Len(req.files) \in 1..CountCeiling

\* a file of exactly MAX_FILE_SIZE bytes reached the remote upload
C5_Witness ==
  \E i \in UploadCalls :
    /\ calls[i].file.size = SizeCeiling
    /\ calls[i].outcome.kind = "ok"
    /\ res.status = 200

\* C6 as stated: a remote upload is made only for a request whose
\* venueName is non-empty after sanitization, so no object is stored
\* under an empty venue folder.
C6_AsStated ==
  \A i \in UploadCalls :
    /\ Truthy(req.venueName)
    /\ sanitizeVenueName(req.venueName) # <<>>
    /\ Head(calls[i].path) # "/"

\* C7: uploadFilesToBucket returns one result per file of the request, in
\* the order of the files; the remote upload is attempted once for every
\* file, in that order, whatever happened to the files before it; and the
\* result of a file has success=false exactly when its own upload failed
\* or threw.
C7_OneResultPerFile ==
  (AuthenticatedUpload /\ res.status = 200) =>
    LET uploads == res.data.uploads
    IN  /\ Len(uploads) = Len(req.files)
        /\ Len(calls) = Len(req.files)
        /\ \A i \in DOMAIN req.files :
             /\ uploads[i].originalName = req.files[i].originalname
             /\ calls[i].op = "upload"
             /\ calls[i].file = req.files[i]
             /\ uploads[i].success <=> calls[i].outcome.kind = "ok"

\* the upload of the first of ten files threw and the tenth was stored
C7_Witness ==
  /\ AuthenticatedUpload
  /\ res.status = 200
  /\ Len(req.files) = 10
  /\ calls[1].outcome.kind = "throw"
  /\ ~res.data.uploads[1].success
  /\ res.data.uploads[10].success

\* the texts the response carries
ResponseTexts ==
  {res.error, res.message.text}
    \cup (IF AuthenticatedUpload /\ res.status = 200
            THEN {res.data.uploads[i].error :
                    i \in {j \in DOMAIN res.data.uploads : ~res.data.uploads[j].success}}
            ELSE {})

\* the texts of the failures of the remote calls of the request
FailureTexts ==
  {calls[i].outcome.message : i \in {j \in DOMAIN calls : calls[j].outcome.kind # "ok"}}

\* C8 as stated: the text of a failure of a remote call is in no field of
\* the response.
C8_AsStated == ResponseTexts \cap FailureTexts = {}

\* C9 as stated: on the two list routes and on DELETE, success=true is
\* returned only if every remote call of the request succeeded.
C9_AsStated ==
  (req.route \in ListRoutes \cup {DeleteRoute} /\ PassedOn /\ res.success) =>
    \A i \in DOMAIN calls : calls[i].outcome.kind = "ok"

\* C9, amended: on DELETE a failed remove, returned or thrown, fails the
\* whole request (500, Delete failed). On the two list routes only a list
\* call that throws fails the whole request (500); a list call that
\* returns an error is logged, its bucket contributes no entry (an empty
\* array on GET /venues/{venueName}/files), the remaining buckets are
\* still listed and the response has success=true.
C9_ListErrorsAreSkipped ==
  /\ (req.route = DeleteRoute /\ PassedOn /\ calls # <<>>) =>
       /\ res.success <=> calls[1].outcome.kind = "ok"
       /\ ~res.success => res.status = 500 /\ res.error = "Delete failed"
  /\ (req.route \in ListRoutes /\ PassedOn) =>
       /\ res.success <=> \A i \in DOMAIN calls : calls[i].outcome.kind # "throw"
       /\ ~res.success => res.status = 500
       /\ res.success => Len(calls) = Len(BucketValues)
       /\ \A i \in DOMAIN calls :
            calls[i].outcome.kind = "error" =>
              /\ \E k \in DOMAIN log : log[k].detail = calls[i].outcome.message
              /\ (res.success /\ req.route = "GET /api/venues/:venueName/files")
                   => res.data.files[i][2] = <<>>

\* every list call of GET /venues returned an error and the response has
\* success=true and no venue
C9_Witness ==
  /\ req.route = "GET /api/venues"
  /\ Len(calls) = 3
  /\ \A i \in DOMAIN calls : calls[i].outcome.kind = "error"
  /\ res.success
  /\ res.data.venues = <<>>

\* C10: an authenticated DELETE whose bucket is not a configured bucket
\* name is answered with 400 Invalid bucket and makes no remote call;
\* otherwise exactly one remote call is made, the remove of the path
\* {venueName}/{fileName} in the bucket of the request.
C10_DeleteOneObject ==
  (req.route = DeleteRoute /\ PassedOn) =>
    IF req.bucket \notin {"photos", "menus", "pricing"}
      THEN res.status = 400 /\ res.error = "Invalid bucket" /\ calls = <<>>
      ELSE /\ Len(calls) = 1
           /\ calls[1].op = "remove"
           /\ calls[1].bucket = req.bucket
           /\ calls[1].path = req.venueName \o <<"/">> \o req.fileName

\* the key PHOTOS, which is no bucket name, was rejected
C10_Witness ==
  /\ req.route = DeleteRoute
  /\ PassedOn
  /\ req.bucket = "PHOTOS"
  /\ res.status = 400


----------------------------------------------------------------------------
\* the sanitizeVenueName applications held
Sanitized == {i \in DOMAIN applied : applied[i].fn = "sanitizeVenueName"}

\* s is empty or matches ^[a-z0-9]+(-[a-z0-9]+)*$
IsSlug(s) ==
  /\ \A i \in DOMAIN s :
       s[i] \in {"a","b","c","d","e","f","g","h","i","j","k","l","m","n","o","p",
                 "q","r","s","t","u","v","w","x","y","z",
                 "0","1","2","3","4","5","6","7","8","9","-"}
  /\ s # <<>> => s[1] # "-" /\ s[Len(s)] # "-"
  /\ \A i \in 1..(Len(s) - 1) : ~(s[i] = "-" /\ s[i + 1] = "-")

\* C11: sanitizeVenueName returns, for every string, a string that is empty
\* or made of non-empty runs of [a-z0-9] separated by single hyphens (no
\* leading, trailing or doubled hyphen, no white space), and sanitizing
\* what it returned changes nothing.
C11_SanitizeIsIdempotent ==
  \A i \in Sanitized :
    /\ DOMAIN applied[i].out = 1..Len(applied[i].out)
    /\ IsSlug(applied[i].out)
    /\ sanitizeVenueName(applied[i].out) = applied[i].out

\* a name with an upper-case letter and white space next to a hyphen was
\* sanitized to two runs joined by one hyphen
C11_Witness ==
  \E i \in Sanitized :
    /\ applied[i].args.venueName = <<"B", " ", "-", "a">>
    /\ applied[i].out = <<"b", "-", "a">>

----------------------------------------------------------------------------
\* the position of the last "/" of a path, 0 when it has none
LastSlash(p) ==
  LET at == {i \in DOMAIN p : p[i] = "/"}
  IN  IF at = {} THEN 0 ELSE CHOOSE i \in at : \A j \in at : j <= i

\* a path is its folder, a "/" and its object name
FolderOf(p) == SubSeq(p, 1, LastSlash(p) - 1)
ObjectNameOf(p) == SubSeq(p, LastSlash(p) + 1, Len(p))

\* the category an upload route hands to uploadFilesToBucket
RouteCategory(r) ==
  IF r.route = "POST /api/upload/photos" THEN r.category ELSE Undefined

\* there is no category: it is absent, empty, or sanitizes to the empty string
NoCategory(category) == ~Truthy(category) \/ sanitizeCategory(category) = <<>>

\* C12 as stated: the folder of every object uploaded is sanitize(venue)
\* alone when there is no category (absent, empty, or empty once
\* sanitized) and sanitize(venue) + "/" + sanitizeCategory(category)
\* otherwise; it never ends with "/", the path has no empty segment
\* between folder and object name, and on menus and pricing the folder is
\* sanitize(venue) whatever category the body carries.
C12_AsStated ==
  \A i \in UploadCalls :
    LET folder == FolderOf(calls[i].path)
        category == RouteCategory(req)
    IN  /\ folder = IF NoCategory(category) THEN sanitizeVenueName(req.venueName)
                    ELSE sanitizeVenueName(req.venueName) \o <<"/">>
                           \o sanitizeCategory(category)
        /\ folder # <<>> => folder[Len(folder)] # "/"
        /\ \A k \in 1..(Len(calls[i].path) - 1) :
             ~(calls[i].path[k] = "/" /\ calls[i].path[k + 1] = "/")
        /\ req.route # "POST /api/upload/photos"
             => folder = sanitizeVenueName(req.venueName)

----------------------------------------------------------------------------
\* the pairs of generateFileName applications held that were made for the
\* same venue, category and original filename
SameFilePairs ==
  {p \in (DOMAIN applied) \X (DOMAIN applied) :
     /\ p[1] < p[2]
     /\ applied[p[1]].fn = "generateFileName"
     /\ applied[p[2]].fn = "generateFileName"
     /\ applied[p[1]].args.venueName = applied[p[2]].args.venueName
     /\ applied[p[1]].args.category = applied[p[2]].args.category
     /\ applied[p[1]].args.originalName = applied[p[2]].args.originalName}

\* the random suffix of a name: the first 8 characters of the identifier
SuffixOf(a) == SubSeq(a.args.uuid, 1, 8)

\* the second the instant of an invocation falls in
SecondOf(a) == a.args.now.sec

\* C13 as stated: two invocations for the same venue, category and original
\* filename that differ in the instant or in the random suffix produce
\* different names; names coincide only when instant and suffix are both
\* identical.
C13_AsStated ==
  \A p \in SameFilePairs :
    LET a == applied[p[1]]
        b == applied[p[2]]
    IN  (a.args.now # b.args.now \/ SuffixOf(a) # SuffixOf(b)) <=> a.out # b.out

\* C13, amended: two invocations for the same venue, category and original
\* filename produce different names exactly when their instants fall in
\* different seconds or their 8-character suffixes differ; two invocations
\* within the same second with the same suffix produce the same name, even
\* when their instants differ in the milliseconds.
C13_DistinctSecondOrSuffix ==
  \A p \in SameFilePairs :
    LET a == applied[p[1]]
        b == applied[p[2]]
    IN  (SecondOf(a) # SecondOf(b) \/ SuffixOf(a) # SuffixOf(b)) <=> a.out # b.out

\* two invocations a millisecond apart with the same suffix produced the
\* same name
C13_Witness ==
  \E p \in SameFilePairs :
    /\ applied[p[1]].args.now.ms # applied[p[2]].args.now.ms
    /\ SecondOf(applied[p[1]]) = SecondOf(applied[p[2]])
    /\ SuffixOf(applied[p[1]]) = SuffixOf(applied[p[2]])
    /\ applied[p[1]].out = applied[p[2]].out

----------------------------------------------------------------------------
Digits == {"0", "1", "2", "3", "4", "5", "6", "7", "8", "9"}

\* t has the form YYYY-MM-DDTHH-MM-SS: 14 digits, four hyphens and a T,
\* no colon and no period
IsTimestamp(t) ==
  /\ Len(t) = 19
  /\ Cardinality({k \in DOMAIN t : t[k] \in Digits}) = 14
  /\ \A k \in {5, 8, 14, 17} : t[k] = "-"
  /\ t[11] = "T"
  /\ \A k \in DOMAIN t : t[k] \notin {":", "."}

\* an 8-character id: the first 8 characters of a version 4 identifier
IsId(s) ==
  Len(s) = 8 /\ \A k \in DOMAIN s : s[k] \in Digits \cup {"a", "b", "c", "d", "e", "f"}

\* the extension of a filename: what starts at its last period, nothing
\* when it has no period or only a leading one
ExtensionOf(name) ==
  LET at == {k \in DOMAIN name : name[k] = "."}
  IN  IF at \subseteq {1} THEN <<>>
      ELSE SubSeq(name, CHOOSE k \in at : \A j \in at : j <= k, Len(name))

\* C14: for an upload without category that reached the storage service,
\* the object is stored in folder sanitize(venueName) under the name
\* sanitize(venueName) + "_" + timestamp + "_" + id + extension, where the
\* timestamp has the 14 digits of YYYY-MM-DDTHH-MM-SS and neither colon nor
\* period, the id has 8 characters and the extension is that of the
\* original filename in lower case, empty when it has none.
C14_NameWithoutCategory ==
  \A i \in UploadCalls :
    ~Truthy(RouteCategory(req)) =>
      LET venue == sanitizeVenueName(req.venueName)
          name == ObjectNameOf(calls[i].path)
          n == Len(venue)
      IN  /\ FolderOf(calls[i].path) = venue
          /\ Len(name) >= n + 29
          /\ SubSeq(name, 1, n) = venue
          /\ name[n + 1] = "_"
          /\ IsTimestamp(SubSeq(name, n + 2, n + 20))
          /\ name[n + 21] = "_"
          /\ IsId(SubSeq(name, n + 22, n + 29))
          /\ SubSeq(name, n + 30, Len(name))
               = toLowerCase(ExtensionOf(calls[i].file.originalname))
          /\ calls[i].outcome.kind = "ok" =>
               /\ res.data.uploads[i].fileName = name
               /\ res.data.uploads[i].filePath = calls[i].path

\* a menu a.PDF of venue "Oak M" was stored in folder oak-m under a name
\* of venue, timestamp, id and .pdf
C14_Witness ==
  /\ req.route = "POST /api/upload/menus"
  /\ req.venueName = <<"O", "a", "k", " ", "M">>
  /\ Len(calls) = 1
  /\ calls[1].op = "upload"
  /\ calls[1].outcome.kind = "ok"
  /\ calls[1].file.originalname = <<"a", ".", "P", "D", "F">>
  /\ FolderOf(calls[1].path) = <<"o", "a", "k", "-", "m">>
  /\ ObjectNameOf(calls[1].path)
       = <<"o", "a", "k", "-", "m", "_">>
           \o <<"2","0","2","5","-","0","1","-","1","5","T","1","0","-","3","0","-","0","0">>
           \o <<"_", "0", "0", "0", "0", "0", "0", "0", "1", ".", "p", "d", "f">>

----------------------------------------------------------------------------
\* the venue folder of an object: the first segment of its path
VenueFolderOf(ob) == Split(ob.path, "/")[1]

\* the names GET /venues/{venueName}/files returned under a bucket
ReturnedNames(bucket) ==
  UNION {{res.data.files[k][2][e].name : e \in DOMAIN res.data.files[k][2]}
           : k \in {j \in DOMAIN res.data.files : res.data.files[j][1] = bucket}}

\* C15 as stated: every object uploaded and not deleted since (with or
\* without category, with or without extension, in any bucket) has its
\* venue folder reported by GET /venues and is returned under its bucket
\* by GET /venues/{folder}/files.
C15_AsStated ==
  /\ (req.route = "GET /api/venues" /\ PassedOn /\ res.success) =>
       \A ob \in store : VenueFolderOf(ob) \in Range(res.data.venues)
  /\ (req.route = "GET /api/venues/:venueName/files" /\ PassedOn /\ res.success) =>
       \A ob \in store :
         VenueFolderOf(ob) = req.venueName =>
           ObjectNameOf(ob.path) \in ReturnedNames(ob.bucket)

====
